---- MODULE Spec2Model ----
(***************************************************************************)
(* Model of GlideIM's client session registry and manager                  *)
(* (im/client/client_manager.go): the two-level map clients -> devices,    *)
(* DefaultClientManager's ClientConnected, AddClient, ClientSignIn,        *)
(* ClientLogout and EnqueueMessage, and the counters clientOnline,         *)
(* maxOnline and messageSent.                                              *)
(*                                                                         *)
(* Every access to shared memory is one step of the calling goroutine:     *)
(* a locked clients.get/add/delete, an unlocked devices.get/put/remove/    *)
(* size, one IClient method call, one atomic counter operation.            *)
(* A draw from uid.GenTemp is a step of its own, apart from the SetID that  *)
(* uses the id. When calls interleave, an unlocked access of a devices map *)
(* that races with a write of it may end the process, a racing            *)
(* devices.get may miss its key, and a range may skip an entry created     *)
(* while it runs.                                                          *)
(***************************************************************************)
EXTENDS Integers, Sequences, FiniteSets, TLC

\* ------------------------------------------------------------------ bounds
\* Goroutines that may be inside the manager at once (SpecConc).
NProcs == 2
\* Permanent user ids are 1..NPerm.
NPerm == 2
\* Device ids are 0..MaxDevice (0: the temporary slot / "all devices").
MaxDevice == 2
\* Temporary ids uid.GenTemp may issue in one run.
MaxTemp == 4
\* Sessions (IClient instances) created in one run.
MaxSess == 3
\* Top-level EnqueueMessage calls in one run.
MaxSent == 1
\* ClientSignIn calls in one run that find a session to sign in.
MaxSignIn == 3
\* The same, in the runs that also enqueue messages or interleave calls.
MaxSignInBusy == 2
\* Permanent user ids the interleaved calls name: 1..NPermConc.
NPermConc == 1

Procs == 1..NProcs
Perm == 1..NPerm
PermConc == 1..NPermConc
Devices == 0..MaxDevice

\* ------------------------------------------------------------ nil values
\* A nil IClient (devices.get of a missing key) and a nil *devices.
NilClient == 0
NilDevices == 0

VARIABLES
    clients,      \* clients.clients: uid -> reference of a devices object
    heap,         \* devices objects: reference -> (device -> IClient)
    sess,         \* the IClient instances: identity, closed, exit, inbox
    tempCount,    \* temporary ids issued by uid.GenTemp
    clientOnline, \* DefaultClientManager.clientOnline
    maxOnline,    \* DefaultClientManager.maxOnline
    messageSent,  \* DefaultClientManager.messageSent
    procs,        \* per goroutine: position, arguments, locals, last result
    hist          \* history of the run: calls counted, peak of clientOnline,
                  \* ids sign-ins have resolved, clients evicted or signed out

vars == <<clients, heap, sess, tempCount, clientOnline, maxOnline, messageSent, procs, hist>>

\* ------------------------------------------------------------- uid package
\* uid.GenTemp: the next temporary id, never issued before. Temporary ids
\* are the negative numbers, permanent ids the positive ones.
GenTemp(n) == 0 - (n + 1)

IsTempId(id) == id < 0

IssuedTemps == {GenTemp(k) : k \in 0..(tempCount - 1)}

\* ------------------------------------------------------------ message
\* message.NewMessage(seq, action, data); seq tells user messages apart.
NewMessage(seq, action) == [seq |-> seq, action |-> action]

ActionNotifyKickOut == "ActionNotifyKickOut"
ActionNotifyAccountLogin == "ActionNotifyAccountLogin"
ActionChatMessage == "ActionChatMessage"

NoMsg == NewMessage(0, "none")

\* ------------------------------------------------------------- IClient
\* newClient(conn): an open client with an empty outbound queue.
newClient == [uid |-> 0, device |-> 0, closed |-> FALSE, exit |-> FALSE, inbox |-> <<>>]

\* IClient.SetID
SetID(ss, c, uid, device) == [ss EXCEPT ![c].uid = uid, ![c].device = device]

\* IClient.Closed
Closed(ss, c) == ss[c].closed

\* IClient.EnqueueMessage: queued on an open client, dropped with an error
\* on a closed one.
ClientEnqueueErr(ss, c) == IF ss[c].closed THEN "ErrClientClosed" ELSE "nil"

ClientEnqueue(ss, c, msg) ==
    IF ss[c].closed THEN ss ELSE [ss EXCEPT ![c].inbox = Append(@, msg)]

\* IClient.Exit: termination is requested; the client's own loop closes it later.
Exit(ss, c) == [ss EXCEPT ![c].exit = TRUE]

\* ------------------------------------------------------------- devices
\* devices.size
DsSize(dv) == Cardinality(DOMAIN dv)

\* A devices.get that answers a missing key with another device's client.
DsGetAny(dv, device) ==
    IF device \in DOMAIN dv THEN dv[device]
    ELSE IF DOMAIN dv = {} THEN NilClient
    ELSE dv[CHOOSE x \in DOMAIN dv : TRUE]

\* devices.get: a missing key reads as the nil IClient.
DsGet(dv, device) == IF device \in DOMAIN dv THEN dv[device] ELSE NilClient

\* devices.put
DsPut(dv, device, cli) ==
    [x \in (DOMAIN dv) \cup {device} |-> IF x = device THEN cli ELSE dv[x]]

\* devices.put as the ranges under way over the map see it (ps: the
\* goroutines, o: the devices object, h[o] the map before the put). An entry
\* created during a range may be produced or skipped, also when its key was
\* produced before and removed since; a put on a key the map has creates none.
Created(ps, h, o, device) ==
    IF device \in DOMAIN h[o] THEN ps
    ELSE [q \in DOMAIN ps |->
            IF ps[q].pc \in {"eq135", "eq139", "eq144"} /\ ps[q].ds = o
            THEN [ps[q] EXCEPT !.fresh = @ \cup {device}, !.visited = @ \ {device}]
            ELSE ps[q]]

\* devices.remove
DsRemove(dv, device) == [x \in (DOMAIN dv) \ {device} |-> dv[x]]

\* &devices{map[int64]IClient{}}
EmptyDevices == [x \in {} |-> NilClient]

\* ------------------------------------------------------------- clients
\* clients.size
ClientsSize(cs) == Cardinality(DOMAIN cs)

\* clients.contains
ClientsContains(cs, uid) == uid \in DOMAIN cs

\* clients.get: the devices of uid, or nil when absent or empty.
ClientsGet(cs, h, uid) ==
    IF uid \in DOMAIN cs /\ DsSize(h[cs[uid]]) # 0 THEN cs[uid] ELSE NilDevices

\* A reference for a newly allocated devices object.
NewRef(h) == CHOOSE o \in 1..(Cardinality(DOMAIN h) + 1) : o \notin DOMAIN h

\* clients.add, the map clients.clients after it
ClientsAddMap(cs, h, uid) ==
    IF uid \in DOMAIN cs THEN cs
    ELSE [x \in (DOMAIN cs) \cup {uid} |-> IF x = uid THEN NewRef(h) ELSE cs[x]]

\* clients.add, the devices objects after it
ClientsAddHeap(cs, h, uid, device, c) ==
    IF uid \in DOMAIN cs
    THEN [h EXCEPT ![cs[uid]] = DsPut(@, device, c)]
    ELSE [o \in (DOMAIN h) \cup {NewRef(h)} |->
            IF o = NewRef(h) THEN DsPut(EmptyDevices, device, c) ELSE h[o]]

\* clients.add, the ranges under way after it (cs.put at line 264)
ClientsAddProcs(ps, cs, h, uid, device) ==
    IF uid \in DOMAIN cs THEN Created(ps, h, cs[uid], device) ELSE ps

\* clients.delete, the devices objects after it
ClientsDeleteHeap(cs, h, uid, device) ==
    IF uid \in DOMAIN cs THEN [h EXCEPT ![cs[uid]] = DsRemove(@, device)] ELSE h

\* A clients.delete that keeps the entry it has emptied.
ClientsDeleteMapKept(cs, h, uid, device) == cs

\* clients.delete, the map clients.clients after it: an emptied entry goes.
ClientsDeleteMap(cs, h, uid, device) ==
    IF uid \in DOMAIN cs /\ DsSize(DsRemove(h[cs[uid]], device)) = 0
    THEN [x \in (DOMAIN cs) \ {uid} |-> cs[x]]
    ELSE cs

\* ------------------------------------------------------------ goroutines
\* A goroutine outside the manager; its locals are Go's zero values.
Idle ==
    [pc |-> "idle", op |-> "none", caller |-> "none", ret |-> "none",
     id |-> 0, uid_ |-> 0, device |-> 0,
     tempDs |-> NilDevices, client |-> NilClient,
     logged |-> NilDevices, existing |-> NilClient,
     cl |-> NilDevices, logDevice |-> NilClient,
     temp |-> 0, max |-> 0, current |-> 0,
     uid |-> 0, dev |-> 0, msg |-> NoMsg,
     ds |-> NilDevices, d |-> NilClient, visited |-> {}, fresh |-> {}, err |-> "nil",
     sawClosed |-> FALSE]

\* The devices objects a goroutine's locals refer to.
Held(pr) == {pr.tempDs, pr.logged, pr.cl, pr.ds} \ {NilDevices}

\* Go's garbage collector: a devices object neither in clients.clients nor
\* in a goroutine's locals is gone.
Collect(h, cs, ps) ==
    LET live == {cs[u] : u \in DOMAIN cs} \cup UNION {Held(ps[p]) : p \in Procs}
    IN  [o \in (DOMAIN h) \cap live |-> h[o]]

\* No goroutine is inside a call of the manager.
AllIdle == \A p \in Procs : procs[p].pc = "idle"

\* A nil IClient was dereferenced: the process has died.
Panicked == \E p \in Procs : procs[p].pc = "panic"

\* Calls in progress that may still draw a temporary id.
Drawing == Cardinality({p \in Procs : procs[p].op \in {"ClientSignIn", "ClientLogout"}
                                      /\ procs[p].pc # "idle"})

\* ClientSignIn calls in progress that have yet to look for their session.
Looking == Cardinality({p \in Procs : procs[p].pc \in {"si58", "si59"}})

\* ids a caller can name: the permanent ones and the temporary ones issued so far.
KnownIds == Perm \cup IssuedTemps

Init ==
    /\ clients = [x \in {} |-> NilDevices]
    /\ heap = [x \in {} |-> EmptyDevices]
    /\ sess = <<>>
    /\ tempCount = 0
    /\ clientOnline = 0
    /\ maxOnline = 0
    /\ messageSent = 0
    /\ procs = [p \in Procs |-> Idle]
    /\ hist = [signIns |-> 0, adds |-> 0, logouts |-> 0, sent |-> 0, peak |-> 0,
               used |-> {}, gone |-> {}]

\* What a call that found its target leaves behind when it returns: its
\* name, its arguments, the clients it worked on and its result.
Returned(pr, r) ==
    [Idle EXCEPT !.op = pr.op, !.ret = r, !.id = pr.id, !.uid_ = pr.uid_,
                 !.device = pr.device, !.uid = pr.uid, !.dev = pr.dev, !.msg = pr.msg,
                 !.client = pr.client, !.existing = pr.existing,
                 !.logDevice = pr.logDevice, !.sawClosed = pr.sawClosed]

\* What a call that found nothing to do leaves behind: its result.
Refused(r) == [Idle EXCEPT !.ret = r]

\* The history after a call has returned with clientOnline at n.
Peak(h, n) == [h EXCEPT !.peak = IF n > @ THEN n ELSE @]

\* ------------------------------------------------- ClientConnected (36-48)
\* connUid := uid.GenTemp(); ret := newClient(conn); ret.SetID(connUid, 0)
\* The new client is reachable by no other goroutine before clients.add.
ClientConnected(p) ==
    /\ ~Panicked
    /\ procs[p].pc = "idle"
    /\ Len(sess) < MaxSess
    /\ tempCount + Drawing < MaxTemp
    /\ LET connUid == GenTemp(tempCount)
           ret == Len(sess) + 1
       IN  /\ sess' = SetID(Append(sess, newClient), ret, connUid, 0)
           /\ tempCount' = tempCount + 1
           /\ procs' = [procs EXCEPT ![p] =
                          [Idle EXCEPT !.pc = "cc43", !.op = "ClientConnected",
                                       !.id = connUid, !.client = ret]]
    /\ UNCHANGED <<clients, heap, clientOnline, maxOnline, messageSent, hist>>

\* c.clients.add(connUid, 0, ret); ret.Run(); return connUid
ClientConnected43(p) ==
    /\ ~Panicked
    /\ procs[p].pc = "cc43"
    /\ clients' = ClientsAddMap(clients, heap, procs[p].id)
    /\ heap' = ClientsAddHeap(clients, heap, procs[p].id, 0, procs[p].client)
    /\ procs' = ClientsAddProcs([procs EXCEPT ![p] = [procs[p] EXCEPT !.pc = "idle", !.ret = "nil"]],
                                clients, heap, procs[p].id, 0)
    /\ UNCHANGED <<sess, tempCount, clientOnline, maxOnline, messageSent, hist>>

\* Goroutine p's record replaced by pr.
Upd(p, pr) == [procs EXCEPT ![p] = pr]

\* A step of goroutine p that changes its locals only.
Local(p, pr) ==
    /\ procs' = Upd(p, pr)
    /\ heap' = Collect(heap, clients, Upd(p, pr))
    /\ UNCHANGED <<clients, sess, tempCount, clientOnline, maxOnline, messageSent, hist>>

\* Goroutine p returns r from a call that found nothing to do.
Return(p, r) ==
    /\ procs' = Upd(p, Refused(r))
    /\ heap' = Collect(heap, clients, Upd(p, Refused(r)))
    /\ hist' = Peak(hist, clientOnline)
    /\ UNCHANGED <<clients, sess, tempCount, clientOnline, maxOnline, messageSent>>

At(p, pc) == ~Panicked /\ procs[p].pc = pc

\* -------------------------------------------------------------- data races
\* The devices object the next step of a goroutine writes outside
\* clients.m.Lock(): logged.remove (75), logged.put (81), cl.remove (113).
UnlockedWrite(pr) ==
    IF pr.pc \in {"si75", "si81"} THEN pr.logged
    ELSE IF pr.pc = "lo113" THEN pr.cl
    ELSE NilDevices

\* The devices object the next step of a goroutine reads: size and get on
\* tempDs (59, 64), logged (66, 68, 77), cl (101, 105) and ds (125, 129).
Reading(pr) ==
    IF pr.pc \in {"si59", "si64"} THEN pr.tempDs
    ELSE IF pr.pc \in {"si66", "si68", "si77"} THEN pr.logged
    ELSE IF pr.pc \in {"lo101", "lo105"} THEN pr.cl
    ELSE IF pr.pc \in {"eq125", "eq129"} THEN pr.ds
    ELSE NilDevices

\* The devices object a goroutine ranges over: it is about to start the
\* range of ds.foreach (135, 216), inside the callback (139, 144), or between
\* two entries of the range.
Iterating(pr) ==
    IF pr.pc \in {"eq135", "eq139", "eq144"} THEN pr.ds ELSE NilDevices

\* The devices object the next step of a goroutine writes inside
\* clients.m.Lock(): cs.put in clients.add (264), d.remove in clients.delete (277).
LockedWrite(pr) ==
    IF pr.pc = "si84" /\ pr.uid_ \in DOMAIN clients THEN clients[pr.uid_]
    ELSE IF pr.pc \in {"si88", "cc43"} /\ pr.id \in DOMAIN clients THEN clients[pr.id]
    ELSE IF pr.pc = "ac51" /\ pr.uid \in DOMAIN clients THEN clients[pr.uid]
    ELSE NilDevices

\* The devices object the next step of a goroutine reads inside
\* clients.m.RLock(): cl.size() in clients.get (246).
LockedRead(pr) ==
    IF pr.pc = "si58" /\ pr.id \in DOMAIN clients THEN clients[pr.id]
    ELSE IF pr.pc \in {"si65", "lo100"} /\ pr.uid_ \in DOMAIN clients THEN clients[pr.uid_]
    ELSE IF pr.pc = "eq124" /\ pr.uid \in DOMAIN clients THEN clients[pr.uid]
    ELSE NilDevices

\* The devices objects a goroutine is about to access, or is ranging over,
\* with no lock held.
Unlocked(pr) == {UnlockedWrite(pr), Reading(pr), Iterating(pr)} \ {NilDevices}

\* A data race on a devices map: p is about to write it while q accesses it,
\* and the Registry's lock does not order the two.
Racing(p, q) ==
    /\ p # q
    /\ \/ /\ UnlockedWrite(procs[p]) # NilDevices
          /\ UnlockedWrite(procs[p]) \in
                Unlocked(procs[q]) \cup {LockedWrite(procs[q]), LockedRead(procs[q])}
       \/ /\ LockedWrite(procs[p]) # NilDevices
          /\ LockedWrite(procs[p]) \in Unlocked(procs[q])

\* The unlocked read q is about to make races with a write.
RacingRead(q) ==
    /\ Reading(procs[q]) # NilDevices
    /\ \E p \in Procs \ {q} :
         Reading(procs[q]) \in {UnlockedWrite(procs[p]), LockedWrite(procs[p])}

\* What devices.get can answer to goroutine p: the entry of the map, or, when
\* the read races with a write of the map, also nil for a key it missed.
Gets(p, dv, device) ==
    {DsGet(dv, device)} \cup (IF RacingRead(p) THEN {NilClient} ELSE {})

\* The Go runtime finds the map written while it is read, ranged over or
\* written by another goroutine ("fatal error: concurrent map writes",
\* "concurrent map read and map write", "concurrent map iteration and map
\* write"): the process dies. The check is best effort: the accesses may as
\* well go on, one after the other, as the other steps describe.
DataRace(p) ==
    /\ ~Panicked
    /\ \E q \in Procs : Racing(p, q)
    /\ procs' = Upd(p, [procs[p] EXCEPT !.pc = "panic"])
    /\ UNCHANGED <<clients, heap, sess, tempCount, clientOnline, maxOnline, messageSent, hist>>

\* ------------------------------------------------------- AddClient (50-53)
\* cs is a client built by the caller, who has given it the identity (uid, 0).
AddClientCall(p) ==
    /\ At(p, "idle")
    /\ Len(sess) < MaxSess
    /\ \E uid \in Perm :
         LET cs == Len(sess) + 1
         IN  /\ sess' = SetID(Append(sess, newClient), cs, uid, 0)
             /\ procs' = Upd(p, [Idle EXCEPT !.pc = "ac51", !.op = "AddClient",
                                             !.uid = uid, !.client = cs])
    /\ UNCHANGED <<clients, heap, tempCount, clientOnline, maxOnline, messageSent, hist>>

\* c.clients.add(uid, 0, cs)
AddClient51(p) ==
    /\ At(p, "ac51")
    /\ clients' = ClientsAddMap(clients, heap, procs[p].uid)
    /\ heap' = ClientsAddHeap(clients, heap, procs[p].uid, 0, procs[p].client)
    /\ procs' = ClientsAddProcs(Upd(p, [procs[p] EXCEPT !.pc = "ac52"]),
                                clients, heap, procs[p].uid, 0)
    /\ UNCHANGED <<sess, tempCount, clientOnline, maxOnline, messageSent, hist>>

\* atomic.AddInt64(&c.clientOnline, 1)
AddClient52(p) ==
    /\ At(p, "ac52")
    /\ clientOnline' = clientOnline + 1
    /\ procs' = Upd(p, Returned(procs[p], "nil"))
    /\ heap' = Collect(heap, clients, procs')
    /\ hist' = Peak([hist EXCEPT !.adds = @ + 1], clientOnline + 1)
    /\ UNCHANGED <<clients, sess, tempCount, maxOnline, messageSent>>

\* ----------------------------------------------------- ClientSignIn (56-97)
ClientSignInCall(p, ids, uids, limit) ==
    /\ At(p, "idle")
    /\ tempCount + Drawing < MaxTemp
    /\ hist.signIns + Looking < limit
    /\ \E id \in ids, uid_ \in uids, device \in Devices :
         Local(p, [Idle EXCEPT !.pc = "si58", !.op = "ClientSignIn",
                               !.id = id, !.uid_ = uid_, !.device = device])

\* A line 58 that counts a sign-in of an unknown id as a sign-in.
SignIn58Counted(p) ==
    /\ At(p, "si58")
    /\ LET tempDs == ClientsGet(clients, heap, procs[p].id)
       IN  IF tempDs = NilDevices
           THEN /\ clientOnline' = clientOnline + 1
                /\ procs' = Upd(p, Refused("nil"))
                /\ UNCHANGED <<clients, heap, sess, tempCount, maxOnline, messageSent, hist>>
           ELSE /\ Local(p, [procs[p] EXCEPT !.pc = "si59", !.tempDs = tempDs])

\* tempDs := c.clients.get(id); if tempDs == nil ... return nil
SignIn58(p) ==
    /\ At(p, "si58")
    /\ LET tempDs == ClientsGet(clients, heap, procs[p].id)
       IN  IF tempDs = NilDevices
           THEN Return(p, "nil")
           ELSE /\ Local(p, [procs[p] EXCEPT !.pc = "si59", !.tempDs = tempDs])

\* ... || tempDs.size() == 0 { return nil }
SignIn59(p) ==
    /\ At(p, "si59")
    /\ IF DsSize(heap[procs[p].tempDs]) = 0
       THEN Return(p, "nil")
       ELSE /\ procs' = Upd(p, [procs[p] EXCEPT !.pc = "si64"])
            /\ hist' = [hist EXCEPT !.signIns = @ + 1, !.used = @ \cup {procs[p].id}]
            /\ UNCHANGED <<clients, heap, sess, tempCount, clientOnline, maxOnline, messageSent>>

\* client := tempDs.get(0)
SignIn64(p) ==
    /\ At(p, "si64")
    /\ \E client \in Gets(p, heap[procs[p].tempDs], 0) :
         Local(p, [procs[p] EXCEPT !.pc = "si65", !.tempDs = NilDevices, !.client = client])

\* logged := c.clients.get(uid_); if logged != nil ...
SignIn65(p) ==
    /\ At(p, "si65")
    /\ LET logged == ClientsGet(clients, heap, procs[p].uid_)
       IN  Local(p, [procs[p] EXCEPT !.pc = IF logged = NilDevices THEN "si84" ELSE "si66",
                                     !.logged = logged])

\* ... && logged.size() > 0
SignIn66(p) ==
    /\ At(p, "si66")
    /\ IF DsSize(heap[procs[p].logged]) > 0
       THEN Local(p, [procs[p] EXCEPT !.pc = "si68"])
       ELSE Local(p, [procs[p] EXCEPT !.pc = "si84", !.logged = NilDevices])

\* existing := logged.get(device); if existing != nil
SignIn68(p) ==
    /\ At(p, "si68")
    /\ \E existing \in Gets(p, heap[procs[p].logged], procs[p].device) :
           Local(p, [procs[p] EXCEPT !.pc = IF existing = NilClient THEN "si77" ELSE "si71",
                                     !.existing = existing])

\* existing.SetID(uid.GenTemp(), 0): the argument is evaluated first
SignIn71(p) ==
    /\ At(p, "si71")
    /\ tempCount' = tempCount + 1
    /\ procs' = Upd(p, [procs[p] EXCEPT !.pc = "si71set", !.temp = GenTemp(tempCount)])
    /\ UNCHANGED <<clients, heap, sess, clientOnline, maxOnline, messageSent, hist>>

\* A line 71 that leaves existing's identity alone.
SignIn71Kept(p) ==
    /\ At(p, "si71set")
    /\ procs' = Upd(p, [procs[p] EXCEPT !.pc = "si73"])
    /\ UNCHANGED <<clients, heap, sess, tempCount, clientOnline, maxOnline, messageSent, hist>>

\* existing.SetID(uid.GenTemp(), 0): the call, with the id drawn
SignIn71SetID(p) ==
    /\ At(p, "si71set")
    /\ sess' = SetID(sess, procs[p].existing, procs[p].temp, 0)
    /\ procs' = Upd(p, [procs[p] EXCEPT !.pc = "si73"])
    /\ UNCHANGED <<clients, heap, tempCount, clientOnline, maxOnline, messageSent, hist>>

\* existing.EnqueueMessage(message.NewMessage(0, message.ActionNotifyKickOut, ...))
SignIn73(p) ==
    /\ At(p, "si73")
    /\ sess' = ClientEnqueue(sess, procs[p].existing, NewMessage(0, ActionNotifyKickOut))
    /\ procs' = Upd(p, [procs[p] EXCEPT !.pc = "si74"])
    /\ UNCHANGED <<clients, heap, tempCount, clientOnline, maxOnline, messageSent, hist>>

\* existing.Exit()
SignIn74(p) ==
    /\ At(p, "si74")
    /\ sess' = Exit(sess, procs[p].existing)
    /\ procs' = Upd(p, [procs[p] EXCEPT !.pc = "si75"])
    /\ UNCHANGED <<clients, heap, tempCount, clientOnline, maxOnline, messageSent, hist>>

\* A line 75 that leaves the evicted session in its slot.
SignIn75Kept(p) ==
    /\ At(p, "si75")
    /\ procs' = Upd(p, [procs[p] EXCEPT !.pc = "si77"])
    /\ hist' = [hist EXCEPT !.gone = @ \cup {procs[p].existing}]
    /\ UNCHANGED <<clients, heap, sess, tempCount, clientOnline, maxOnline, messageSent>>

\* logged.remove(device)
SignIn75(p) ==
    /\ At(p, "si75")
    /\ heap' = [heap EXCEPT ![procs[p].logged] = DsRemove(@, procs[p].device)]
    /\ procs' = Upd(p, [procs[p] EXCEPT !.pc = "si77"])
    /\ hist' = [hist EXCEPT !.gone = @ \cup {procs[p].existing}]
    /\ UNCHANGED <<clients, sess, tempCount, clientOnline, maxOnline, messageSent>>

\* if logged.size() > 0 { _ = EnqueueMessage(uid_, NewMessage(0, ActionNotifyAccountLogin, msg)) }
\* The package's EnqueueMessage(uid, msg) is Manager.EnqueueMessage(uid, 0, msg).
SignIn77(p) ==
    /\ At(p, "si77")
    /\ IF DsSize(heap[procs[p].logged]) > 0
       THEN Local(p, [procs[p] EXCEPT !.pc = "eq121", !.caller = "ClientSignIn",
                                      !.uid = procs[p].uid_, !.dev = 0,
                                      !.msg = NewMessage(0, ActionNotifyAccountLogin)])
       ELSE Local(p, [procs[p] EXCEPT !.pc = "si81"])

\* logged.put(device, client)
SignIn81(p) ==
    /\ At(p, "si81")
    /\ procs' = Created(Upd(p, [procs[p] EXCEPT !.pc = "si86", !.logged = NilDevices]),
                        heap, procs[p].logged, procs[p].device)
    /\ heap' = Collect([heap EXCEPT ![procs[p].logged] = DsPut(@, procs[p].device, procs[p].client)],
                       clients, procs')
    /\ UNCHANGED <<clients, sess, tempCount, clientOnline, maxOnline, messageSent, hist>>

\* c.clients.add(uid_, device, client)
SignIn84(p) ==
    /\ At(p, "si84")
    /\ clients' = ClientsAddMap(clients, heap, procs[p].uid_)
    /\ heap' = ClientsAddHeap(clients, heap, procs[p].uid_, procs[p].device, procs[p].client)
    /\ procs' = ClientsAddProcs(Upd(p, [procs[p] EXCEPT !.pc = "si86"]),
                                clients, heap, procs[p].uid_, procs[p].device)
    /\ UNCHANGED <<sess, tempCount, clientOnline, maxOnline, messageSent, hist>>

\* client.SetID(uid_, device): a nil client panics.
SignIn86(p) ==
    /\ At(p, "si86")
    /\ IF procs[p].client = NilClient
       THEN /\ procs' = Upd(p, [procs[p] EXCEPT !.pc = "panic"])
            /\ UNCHANGED sess
       ELSE /\ sess' = SetID(sess, procs[p].client, procs[p].uid_, procs[p].device)
            /\ procs' = Upd(p, [procs[p] EXCEPT !.pc = "si88"])
    /\ UNCHANGED <<clients, heap, tempCount, clientOnline, maxOnline, messageSent, hist>>

\* c.clients.delete(id, 0)
SignIn88(p) ==
    /\ At(p, "si88")
    /\ clients' = ClientsDeleteMap(clients, heap, procs[p].id, 0)
    /\ procs' = Upd(p, [procs[p] EXCEPT !.pc = "si90"])
    /\ heap' = Collect(ClientsDeleteHeap(clients, heap, procs[p].id, 0), clients', procs')
    /\ UNCHANGED <<sess, tempCount, clientOnline, maxOnline, messageSent, hist>>

\* atomic.AddInt64(&c.clientOnline, 1)
SignIn90(p) ==
    /\ At(p, "si90")
    /\ clientOnline' = clientOnline + 1
    /\ procs' = Upd(p, [procs[p] EXCEPT !.pc = "si91"])
    /\ UNCHANGED <<clients, heap, sess, tempCount, maxOnline, messageSent, hist>>

\* max := atomic.LoadInt64(&c.maxOnline)
SignIn91(p) ==
    /\ At(p, "si91")
    /\ Local(p, [procs[p] EXCEPT !.pc = "si92", !.max = maxOnline])

\* current := atomic.LoadInt64(&c.clientOnline)
SignIn92(p) ==
    /\ At(p, "si92")
    /\ Local(p, [procs[p] EXCEPT !.pc = "si93", !.current = clientOnline])

\* if max < current { atomic.StoreInt64(&c.maxOnline, current) }; return nil
SignIn93(p) ==
    /\ At(p, "si93")
    /\ maxOnline' = IF procs[p].max < procs[p].current THEN procs[p].current ELSE maxOnline
    /\ procs' = Upd(p, Returned(procs[p], "nil"))
    /\ heap' = Collect(heap, clients, procs')
    /\ hist' = Peak(hist, clientOnline)
    /\ UNCHANGED <<clients, sess, tempCount, clientOnline, messageSent>>

\* ---------------------------------------------------- ClientLogout (99-117)
ClientLogoutCall(p, uids) ==
    /\ At(p, "idle")
    /\ tempCount + Drawing < MaxTemp
    /\ \E uid_ \in uids, device \in Devices :
         Local(p, [Idle EXCEPT !.pc = "lo100", !.op = "ClientLogout",
                               !.uid_ = uid_, !.device = device])

\* cl := c.clients.get(uid_); if cl == nil ... return nil
Logout100(p) ==
    /\ At(p, "lo100")
    /\ LET cl == ClientsGet(clients, heap, procs[p].uid_)
       IN  IF cl = NilDevices
           THEN Return(p, "nil")
           ELSE Local(p, [procs[p] EXCEPT !.pc = "lo101", !.cl = cl])

\* ... || cl.size() == 0 { return nil }
Logout101(p) ==
    /\ At(p, "lo101")
    /\ IF DsSize(heap[procs[p].cl]) = 0
       THEN Return(p, "nil")
       ELSE Local(p, [procs[p] EXCEPT !.pc = "lo105"])

\* A line 105 that counts a logout of a missing device as a logout.
Logout105Counted(p) ==
    /\ At(p, "lo105")
    /\ \E logDevice \in Gets(p, heap[procs[p].cl], procs[p].device) :
           IF logDevice = NilClient
           THEN /\ clientOnline' = clientOnline - 1
                /\ procs' = Upd(p, Refused("nil"))
                /\ UNCHANGED <<clients, heap, sess, tempCount, maxOnline, messageSent, hist>>
           ELSE /\ procs' = Upd(p, [procs[p] EXCEPT !.pc = "lo111", !.logDevice = logDevice])
                /\ hist' = [hist EXCEPT !.logouts = @ + 1]
                /\ UNCHANGED <<clients, heap, sess, tempCount, clientOnline, maxOnline, messageSent>>

\* logDevice := cl.get(device); if logDevice == nil { return nil }
Logout105(p) ==
    /\ At(p, "lo105")
    /\ \E logDevice \in Gets(p, heap[procs[p].cl], procs[p].device) :
           IF logDevice = NilClient
           THEN Return(p, "nil")
           ELSE /\ procs' = Upd(p, [procs[p] EXCEPT !.pc = "lo111", !.logDevice = logDevice])
                /\ hist' = [hist EXCEPT !.logouts = @ + 1]
                /\ UNCHANGED <<clients, heap, sess, tempCount, clientOnline, maxOnline, messageSent>>

\* logDevice.SetID(uid.GenTemp(), 0): the argument is evaluated first
Logout111(p) ==
    /\ At(p, "lo111")
    /\ tempCount' = tempCount + 1
    /\ procs' = Upd(p, [procs[p] EXCEPT !.pc = "lo111set", !.temp = GenTemp(tempCount)])
    /\ UNCHANGED <<clients, heap, sess, clientOnline, maxOnline, messageSent, hist>>

\* logDevice.SetID(uid.GenTemp(), 0): the call, with the id drawn
Logout111SetID(p) ==
    /\ At(p, "lo111set")
    /\ sess' = SetID(sess, procs[p].logDevice, procs[p].temp, 0)
    /\ procs' = Upd(p, [procs[p] EXCEPT !.pc = "lo112"])
    /\ UNCHANGED <<clients, heap, tempCount, clientOnline, maxOnline, messageSent, hist>>

\* logDevice.Exit()
Logout112(p) ==
    /\ At(p, "lo112")
    /\ sess' = Exit(sess, procs[p].logDevice)
    /\ procs' = Upd(p, [procs[p] EXCEPT !.pc = "lo113"])
    /\ UNCHANGED <<clients, heap, tempCount, clientOnline, maxOnline, messageSent, hist>>

\* cl.remove(device)
Logout113(p) ==
    /\ At(p, "lo113")
    /\ procs' = Upd(p, [procs[p] EXCEPT !.pc = "lo114", !.cl = NilDevices])
    /\ heap' = Collect([heap EXCEPT ![procs[p].cl] = DsRemove(@, procs[p].device)],
                       clients, procs')
    /\ hist' = [hist EXCEPT !.gone = @ \cup {procs[p].logDevice}]
    /\ UNCHANGED <<clients, sess, tempCount, clientOnline, maxOnline, messageSent>>

\* A line 114 that leaves clientOnline alone.
Logout114Kept(p) ==
    /\ At(p, "lo114")
    /\ procs' = Upd(p, Returned(procs[p], "nil"))
    /\ hist' = Peak(hist, clientOnline)
    /\ UNCHANGED <<clients, heap, sess, tempCount, clientOnline, maxOnline, messageSent>>

\* atomic.AddInt64(&c.clientOnline, -1); return nil
Logout114(p) ==
    /\ At(p, "lo114")
    /\ clientOnline' = clientOnline - 1
    /\ procs' = Upd(p, Returned(procs[p], "nil"))
    /\ hist' = Peak(hist, clientOnline - 1)
    /\ UNCHANGED <<clients, heap, sess, tempCount, maxOnline, messageSent>>

\* ------------------------------------------------- EnqueueMessage (120-148)
\* A call returns r: to ClientSignIn line 81 (the result dropped) or to the caller.
EnqueueReturn(p, r) ==
    IF procs[p].caller = "ClientSignIn"
    THEN Local(p, [procs[p] EXCEPT !.pc = "si81", !.caller = "none", !.uid = 0, !.dev = 0,
                                   !.msg = NoMsg, !.ds = NilDevices, !.d = NilClient,
                                   !.visited = {}, !.fresh = {}, !.err = "nil",
                                   !.sawClosed = FALSE])
    ELSE /\ procs' = Upd(p, Returned(procs[p], r))
         /\ heap' = Collect(heap, clients, Upd(p, Returned(procs[p], r)))
         /\ hist' = Peak(hist, clientOnline)
         /\ UNCHANGED <<clients, sess, tempCount, clientOnline, maxOnline, messageSent>>

EnqueueMessageCall(p) ==
    /\ At(p, "idle")
    /\ hist.sent < MaxSent
    /\ \E uid \in KnownIds, device \in Devices :
         /\ procs' = Upd(p, [Idle EXCEPT !.pc = "eq121", !.op = "EnqueueMessage",
                                         !.uid = uid, !.dev = device,
                                         !.msg = NewMessage(hist.sent + 1, ActionChatMessage)])
         /\ hist' = [hist EXCEPT !.sent = @ + 1]
    /\ UNCHANGED <<clients, heap, sess, tempCount, clientOnline, maxOnline, messageSent>>

\* atomic.AddInt64(&c.messageSent, 1)
Enqueue121(p) ==
    /\ At(p, "eq121")
    /\ messageSent' = messageSent + 1
    /\ procs' = Upd(p, [procs[p] EXCEPT !.pc = "eq124"])
    /\ UNCHANGED <<clients, heap, sess, tempCount, clientOnline, maxOnline, hist>>

\* ds := c.clients.get(uid); if ds == nil ... return ErrClientNotExist
Enqueue124(p) ==
    /\ At(p, "eq124")
    /\ LET ds == ClientsGet(clients, heap, procs[p].uid)
       IN  IF ds = NilDevices
           THEN EnqueueReturn(p, "ErrClientNotExist")
           ELSE Local(p, [procs[p] EXCEPT !.pc = "eq125", !.ds = ds])

\* ... || ds.size() == 0 { return ErrClientNotExist }
Enqueue125(p) ==
    /\ At(p, "eq125")
    /\ IF DsSize(heap[procs[p].ds]) = 0
       THEN EnqueueReturn(p, "ErrClientNotExist")
       ELSE Local(p, [procs[p] EXCEPT !.pc = IF procs[p].dev # 0 THEN "eq129" ELSE "eq135"])

\* d := ds.get(device); if d == nil { return ErrClientNotExist }
Enqueue129(p) ==
    /\ At(p, "eq129")
    /\ \E d \in Gets(p, heap[procs[p].ds], procs[p].dev) :
           IF d = NilClient
           THEN EnqueueReturn(p, "ErrClientNotExist")
           ELSE Local(p, [procs[p] EXCEPT !.pc = "eq133", !.ds = NilDevices, !.d = d])

\* return d.EnqueueMessage(msg)
Enqueue133(p) ==
    /\ At(p, "eq133")
    /\ sess' = ClientEnqueue(sess, procs[p].d, procs[p].msg)
    /\ procs' = Upd(p, Returned(procs[p], ClientEnqueueErr(sess, procs[p].d)))
    /\ hist' = Peak(hist, clientOnline)
    /\ UNCHANGED <<clients, heap, tempCount, clientOnline, maxOnline, messageSent>>

\* A devices.foreach that stops after its first entry.
ForeachFirst(dv, visited) == IF visited = {} THEN DOMAIN dv ELSE {}

\* devices.foreach: the keys range has yet to produce, in any order.
ForeachLeft(dv, visited) == (DOMAIN dv) \ visited

\* ds.foreach(func(deviceId, c) {...}): the next entry, or the end of the
\* range, which may skip the entries created since the range began.
Enqueue135(p) ==
    /\ At(p, "eq135")
    /\ \/ /\ ForeachLeft(heap[procs[p].ds], procs[p].visited) \subseteq procs[p].fresh
          /\ EnqueueReturn(p, procs[p].err)
       \/ \E deviceId \in ForeachLeft(heap[procs[p].ds], procs[p].visited) :
              Local(p, [procs[p] EXCEPT !.pc = "eq139", !.visited = @ \cup {deviceId},
                                        !.fresh = @ \ {deviceId},
                                        !.d = heap[procs[p].ds][deviceId]])

\* if c.Closed() { err = ErrClientClosed; return }: a nil client panics.
Enqueue139(p) ==
    /\ At(p, "eq139")
    /\ IF procs[p].d = NilClient
       THEN Local(p, [procs[p] EXCEPT !.pc = "panic"])
       ELSE IF Closed(sess, procs[p].d)
       THEN Local(p, [procs[p] EXCEPT !.pc = "eq135", !.err = "ErrClientClosed", !.d = NilClient,
                                      !.sawClosed = TRUE])
       ELSE Local(p, [procs[p] EXCEPT !.pc = "eq144"])

\* else { err = c.EnqueueMessage(msg) }
Enqueue144(p) ==
    /\ At(p, "eq144")
    /\ sess' = ClientEnqueue(sess, procs[p].d, procs[p].msg)
    /\ procs' = Upd(p, [procs[p] EXCEPT !.pc = "eq135", !.d = NilClient,
                                        !.err = ClientEnqueueErr(sess, procs[p].d)])
    /\ UNCHANGED <<clients, heap, tempCount, clientOnline, maxOnline, messageSent, hist>>

\* ------------------------------------------------------------- environment
\* A client's connection ends (its transport fails, or its loop obeys Exit):
\* from then on Closed() reports true.
ConnectionClosed ==
    /\ ~Panicked
    /\ \E c \in 1..Len(sess) :
         /\ ~sess[c].closed
         /\ sess' = [sess EXCEPT ![c].closed = TRUE]
    /\ UNCHANGED <<clients, heap, tempCount, clientOnline, maxOnline, messageSent, procs, hist>>

\* ---------------------------------------------------------- specifications
AddClientSteps(p) == AddClientCall(p) \/ AddClient51(p) \/ AddClient52(p)

SignInSteps(p) ==
    \/ SignIn58(p) \/ SignIn59(p) \/ SignIn64(p) \/ SignIn65(p)
    \/ SignIn66(p) \/ SignIn68(p) \/ SignIn71(p) \/ SignIn71SetID(p) \/ SignIn73(p) \/ SignIn74(p)
    \/ SignIn75(p) \/ SignIn77(p) \/ SignIn81(p) \/ SignIn84(p) \/ SignIn86(p)
    \/ SignIn88(p) \/ SignIn90(p) \/ SignIn91(p) \/ SignIn92(p) \/ SignIn93(p)

LogoutSteps(p) ==
    \/ Logout100(p) \/ Logout101(p) \/ Logout105(p)
    \/ Logout111(p) \/ Logout111SetID(p) \/ Logout112(p) \/ Logout113(p) \/ Logout114(p)

\* The steps of EnqueueMessage a broadcast takes (device = 0).
BroadcastSteps(p) ==
    \/ Enqueue121(p) \/ Enqueue124(p) \/ Enqueue125(p)
    \/ Enqueue135(p) \/ Enqueue139(p) \/ Enqueue144(p)

\* The steps of EnqueueMessage to one device.
UnicastSteps(p) == Enqueue129(p) \/ Enqueue133(p)

\* Calls that never overlap, made by one goroutine as the gateway makes them:
\* sign-in with the temporary id of a connection and a permanent user id,
\* logout of a permanent user id.
Next ==
    \/ ClientConnected(1) \/ ClientConnected43(1)
    \/ AddClientSteps(1)
    \/ ClientSignInCall(1, IssuedTemps, Perm, MaxSignIn) \/ SignInSteps(1)
    \/ ClientLogoutCall(1, Perm) \/ LogoutSteps(1)
    \/ BroadcastSteps(1)

Spec == Init /\ [][Next]_vars

\* The same calls without AddClient, with messages enqueued and connections
\* ending in between.
NextDeliver ==
    \/ ClientConnected(1) \/ ClientConnected43(1)
    \/ ClientSignInCall(1, IssuedTemps, Perm, MaxSignInBusy) \/ SignInSteps(1)
    \/ ClientLogoutCall(1, Perm) \/ LogoutSteps(1)
    \/ EnqueueMessageCall(1) \/ BroadcastSteps(1) \/ UnicastSteps(1)
    \/ ConnectionClosed

SpecDeliver == Init /\ [][NextDeliver]_vars

\* Calls from NProcs goroutines, interleaved step by step.
NextConc ==
    \E p \in Procs :
        \/ ClientConnected(p) \/ ClientConnected43(p)
        \/ ClientSignInCall(p, IssuedTemps, PermConc, MaxSignInBusy) \/ SignInSteps(p)
        \/ ClientLogoutCall(p, PermConc) \/ LogoutSteps(p)
        \/ BroadcastSteps(p)
        \/ DataRace(p)

SpecConc == Init /\ [][NextConc]_vars

\* Calls that never overlap, ClientLogout named with any id a caller can
\* know (the api hands it the connection's current id, temporary before the
\* sign-in) and ClientSignIn with a permanent user id.
NextAnyLogout ==
    \/ ClientConnected(1) \/ ClientConnected43(1)
    \/ ClientSignInCall(1, IssuedTemps, Perm, MaxSignInBusy) \/ SignInSteps(1)
    \/ ClientLogoutCall(1, KnownIds) \/ LogoutSteps(1)
    \/ BroadcastSteps(1)

SpecAnyLogout == Init /\ [][NextAnyLogout]_vars

\* ------------------------------------------------------------ observations
\* The slots (uid, device) of the Registry.
Slots == {sl \in (DOMAIN clients) \X Devices : sl[2] \in DOMAIN heap[clients[sl[1]]]}

\* The client held at a slot of the Registry.
HeldAt(sl) == heap[clients[sl[1]]][sl[2]]

\* The slots that hold client c.
SlotsOf(c) == {sl \in Slots : HeldAt(sl) = c}

\* The clients created so far.
Clients == 1..Len(sess)

\* The identity of client c.
Identity(c) == <<sess[c].uid, sess[c].device>>

\* How often msg was queued on client c.
Queued(c, msg) == Cardinality({i \in 1..Len(sess[c].inbox) : sess[c].inbox[i] = msg})

\* ------------------------------------------------------------------ claims
\* C1: once all concurrent ClientSignIn calls have returned, every session
\* that signed in to a slot and does not hold it has been evicted: a session
\* still carrying a permanent identity is the one registered at that slot.
\* Stated for runs without ClientLogout, as the claim is about sign-ins only.
C1_LosersEvicted ==
    (AllIdle /\ hist.logouts = 0) =>
        \A c \in Clients :
            ~IsTempId(sess[c].uid) =>
                /\ Identity(c) \in Slots
                /\ HeldAt(Identity(c)) = c

\* C2: no two distinct Sessions hold the same identity at the same instant.
C2_IdentitiesDistinct ==
    \A c1 \in Clients, c2 \in Clients : c1 # c2 => Identity(c1) # Identity(c2)

\* C3: after any completed ClientConnected, ClientSignIn or ClientLogout call
\* the Registry has no userId entry whose DeviceSet is empty. Stated for runs
\* without AddClient, which the claim does not cover.
C3_NoEmptyDeviceSet ==
    (AllIdle /\ hist.adds = 0) => \A u \in DOMAIN clients : DsSize(heap[clients[u]]) > 0

\* The last call of goroutine p was a top-level EnqueueMessage that has returned.
Enqueued(p) == procs[p].pc = "idle" /\ procs[p].op = "EnqueueMessage"

\* C4: a broadcast EnqueueMessage(userId, 0, msg) that found one of the
\* user's devices closed returns ErrClientClosed.
C4_ClosedReported ==
    \A p \in Procs :
        (Enqueued(p) /\ procs[p].dev = 0 /\ procs[p].sawClosed) =>
            procs[p].ret = "ErrClientClosed"

\* The slots registered under a permanent userId.
PermSlots == {sl \in Slots : ~IsTempId(sl[1])}

\* C5: after non-overlapping calls, clientOnline is the number of sessions
\* registered under a permanent userId. Stated for runs without AddClient,
\* which the claim does not cover.
C5_OnlineCountsRegistered ==
    (AllIdle /\ hist.adds = 0) =>
        clientOnline = Cardinality(PermSlots)

\* C6: after non-overlapping calls, clientOnline = (sign-ins that found their
\* temporary session + AddClient calls) - (logouts that found their session).
C6_OnlinePairing ==
    AllIdle => clientOnline = hist.signIns + hist.adds - hist.logouts

\* C6's case: sign-ins, a direct registration and a logout have all returned.
C6_Witness ==
    /\ AllIdle
    /\ hist.signIns >= 2
    /\ hist.adds >= 1
    /\ hist.logouts >= 1
    /\ clientOnline = 2

\* C7: after non-overlapping calls, maxOnline is the largest value
\* clientOnline has had after any completed call.
C7_MaxOnlineIsPeak ==
    AllIdle => maxOnline = hist.peak

\* userId has a registered device.
HasDevices(uid) == \E sl \in Slots : sl[1] = uid

\* Client c is registered under userId.
RegisteredUnder(c, uid) == \E sl \in SlotsOf(c) : sl[1] = uid

\* C8: a broadcast EnqueueMessage(userId, 0, msg) over open sessions queues
\* msg exactly once on every session registered under userId and on no other.
C8_FanOut ==
    \A p \in Procs :
        (/\ Enqueued(p)
         /\ procs[p].dev = 0
         /\ \A c \in Clients : RegisteredUnder(c, procs[p].uid) => ~Closed(sess, c)) =>
            \A c \in Clients :
                Queued(c, procs[p].msg) = IF RegisteredUnder(c, procs[p].uid) THEN 1 ELSE 0

\* C8's case: the message reached both devices of a user while a session of
\* another userId was registered.
C8_Witness ==
    \E p \in Procs :
        /\ Enqueued(p)
        /\ procs[p].dev = 0
        /\ procs[p].ret = "nil"
        /\ Cardinality({c \in Clients : RegisteredUnder(c, procs[p].uid)}) = 2
        /\ \E c \in Clients : SlotsOf(c) # {} /\ ~RegisteredUnder(c, procs[p].uid)
        /\ \A c \in Clients : RegisteredUnder(c, procs[p].uid) => Queued(c, procs[p].msg) = 1

\* C9: EnqueueMessage(userId, deviceId, msg) returns ErrClientNotExist and
\* queues msg on no session when userId has no registered device, or when
\* deviceId is non-zero and not registered for userId.
C9_NotExist ==
    \A p \in Procs :
        (/\ Enqueued(p)
         /\ \/ ~HasDevices(procs[p].uid)
            \/ procs[p].dev # 0 /\ <<procs[p].uid, procs[p].dev>> \notin Slots) =>
            /\ procs[p].ret = "ErrClientNotExist"
            /\ \A c \in Clients : Queued(c, procs[p].msg) = 0

\* C9's case: the device asked for is missing while another device of the
\* same user is registered.
C9_Witness ==
    \E p \in Procs :
        /\ Enqueued(p)
        /\ procs[p].dev # 0
        /\ <<procs[p].uid, procs[p].dev>> \notin Slots
        /\ ~IsTempId(procs[p].uid)
        /\ HasDevices(procs[p].uid)
        /\ procs[p].ret = "ErrClientNotExist"

\* The last call of goroutine p was a ClientSignIn that evicted a session.
Evicted(p) ==
    procs[p].pc = "idle" /\ procs[p].op = "ClientSignIn" /\ procs[p].existing # NilClient

\* C10: when B signs in to a slot held by A, then after ClientSignIn returns
\* the slot holds B and B is held nowhere else, B's identity is the slot, A's
\* identity is the temporary id just generated with device 0, the kick-out
\* notification is the last message queued on A, A's termination has been
\* requested and A is held at no slot of the Registry.
C10_Eviction ==
    \A p \in Procs :
        Evicted(p) =>
            LET A == procs[p].existing
                B == procs[p].client
                slot == <<procs[p].uid_, procs[p].device>>
            IN  /\ A # B
                /\ slot \in Slots
                /\ SlotsOf(B) = {slot}
                /\ Identity(B) = slot
                /\ Identity(A) = <<GenTemp(tempCount - 1), 0>>
                /\ IsTempId(sess[A].uid)
                /\ \A c \in Clients \ {A} : sess[c].uid # sess[A].uid
                /\ ~ClientsContains(clients, sess[A].uid)
                /\ Len(sess[A].inbox) > 0
                /\ sess[A].inbox[Len(sess[A].inbox)] = NewMessage(0, ActionNotifyKickOut)
                /\ sess[A].exit
                /\ SlotsOf(A) = {}

\* C10's case: an eviction has happened while the user keeps another device.
C10_Witness ==
    \E p \in Procs :
        /\ Evicted(p)
        /\ Cardinality({sl \in Slots : sl[1] = procs[p].uid_}) >= 2

\* C11: after a ClientSignIn that found its temporary session has returned,
\* its tempId has no entry in the Registry and clients.get(tempId) is nil, so
\* that a later ClientSignIn with the same tempId returns at line 62.
C11_TempUnresolvable ==
    AllIdle =>
        \A t \in hist.used :
            /\ ~ClientsContains(clients, t)
            /\ ClientsGet(clients, heap, t) = NilDevices

\* C11's case: two sign-ins have consumed their temporary ids while another
\* connection is still registered under its own.
C11_Witness ==
    /\ AllIdle
    /\ Cardinality(hist.used) >= 2
    /\ \E t \in IssuedTemps : ClientsGet(clients, heap, t) # NilDevices
    /\ \A t \in hist.used : ClientsGet(clients, heap, t) = NilDevices

\* The slot sl of the Registry holds a Session: the key is there and its
\* value is no nil IClient.
HoldsSession(sl) == sl \in Slots /\ HeldAt(sl) # NilClient

\* The Registry as its readers see it: userId -> device -> IClient.
Registry == [u \in DOMAIN clients |-> heap[clients[u]]]

\* Goroutine p is inside a ClientLogout(uid_, device) whose slot holds no
\* Session: the user has no entry, the entry has no such device, or the
\* device holds a nil IClient (cl.get(device) == nil, lines 105-106).
LogoutOfNothing(p) ==
    /\ procs[p].op = "ClientLogout"
    /\ procs[p].pc \in {"lo100", "lo101", "lo105"}
    /\ ~HoldsSession(<<procs[p].uid_, procs[p].device>>)

\* The last call of goroutine p was a ClientLogout that signed a session out.
SignedOut(p) ==
    procs[p].pc = "idle" /\ procs[p].op = "ClientLogout" /\ procs[p].logDevice # NilClient

\* C12: every step ClientLogout takes while its slot holds no Session leaves
\* the Registry, the Sessions and the counters as they are, and the call
\* returns nil, whatever other calls are under way. A ClientLogout that found
\* a session leaves the slot without a Session when it removes it (113) and
\* then decrements clientOnline by one and returns nil (114), so that a second
\* ClientLogout of the same slot right after it is a call of the first kind.
C12_LogoutIdempotent ==
    [][\A p \in Procs :
         procs'[p] # procs[p] =>
            /\ LogoutOfNothing(p) =>
                 /\ Registry' = Registry
                 /\ UNCHANGED <<sess, tempCount, clientOnline, maxOnline, messageSent>>
                 /\ procs'[p].pc \in {"idle", "lo101", "lo105"}
                 /\ procs'[p].pc = "idle" => procs'[p].ret = "nil"
            /\ (procs[p].pc = "lo113" /\ procs'[p].pc = "lo114") =>
                 ~HoldsSession(<<procs[p].uid_, procs[p].device>>)'
            /\ procs[p].pc = "lo114" =>
                 /\ clientOnline' = clientOnline - 1
                 /\ SignedOut(p)'
                 /\ procs'[p].ret = "nil"]_vars

\* C12's case: after a ClientLogout has signed a session out, a ClientLogout
\* is at line 105 for a device whose key is in the user's DeviceSet and holds
\* a nil IClient.
C12_Witness ==
    \E p \in Procs :
        /\ LogoutOfNothing(p)
        /\ procs[p].pc = "lo105"
        /\ <<procs[p].uid_, procs[p].device>> \in Slots
        /\ hist.logouts >= 1
        /\ hist.gone # {}

\* Goroutine p is inside a ClientSignIn(id, uid_, device) whose id resolves to
\* no registered session: clients.get(id) answers nil (58), or the DeviceSet
\* it answered has been emptied since (tempDs.size() == 0, 59).
SignInOfNothing(p) ==
    /\ procs[p].op = "ClientSignIn"
    /\ \/ /\ procs[p].pc = "si58"
          /\ ClientsGet(clients, heap, procs[p].id) = NilDevices
       \/ /\ procs[p].pc = "si59"
          /\ DsSize(heap[procs[p].tempDs]) = 0

\* C13: a ClientSignIn whose tempId resolves to no registered session returns
\* nil at once and changes neither the Registry, nor a Session (identity,
\* closed, exit, queue), nor clientOnline, maxOnline or messageSent, whatever
\* other calls are under way.
C13_SignInOfNothingFrame ==
    [][\A p \in Procs :
         (procs'[p] # procs[p] /\ SignInOfNothing(p)) =>
            /\ Registry' = Registry
            /\ UNCHANGED <<sess, tempCount, clientOnline, maxOnline, messageSent>>
            /\ procs'[p].pc = "idle"
            /\ procs'[p].ret = "nil"]_vars

\* C13's case: the tempId was consumed by an overlapping sign-in after this
\* call resolved it (58), so that the call is at line 59 with an emptied
\* DeviceSet, and the slot asked for holds a session the call must not evict.
C13_Witness ==
    \E p \in Procs :
        /\ SignInOfNothing(p)
        /\ procs[p].pc = "si59"
        /\ procs[p].id \in hist.used
        /\ HoldsSession(<<procs[p].uid_, procs[p].device>>)
        /\ clientOnline >= 1

\* C14: a Session that a conflicting ClientSignIn has evicted or a
\* ClientLogout has signed out (its slot removed, lines 75 and 113) is never
\* again held at a slot of a permanent userId, in any interleaving of calls.
C14_NoReturnFromEviction ==
    \A c \in hist.gone : \A sl \in SlotsOf(c) : IsTempId(sl[1])

\* C15: no goroutine writes a DeviceSet outside the Registry's exclusive lock
\* while another goroutine is about to write it, reads it or iterates it.
C15_MutationsSerialized ==
    \A p \in Procs, q \in Procs :
        (p # q /\ UnlockedWrite(procs[p]) # NilDevices) =>
            UnlockedWrite(procs[p]) \notin
                {UnlockedWrite(procs[q]), Reading(procs[q]), Iterating(procs[q])}

\* C16: after non-overlapping ClientConnected, ClientSignIn (to a permanent
\* user id) and ClientLogout calls, every Registry entry keyed by a temporary
\* userId has exactly one device slot, keyed 0.
C16_TempEntryOneSlot ==
    AllIdle =>
        \A u \in DOMAIN clients :
            IsTempId(u) => DOMAIN heap[clients[u]] = {0}

\* C19: clientOnline is never negative, whatever the arguments of the calls.
C19_OnlineNotNegative == clientOnline >= 0

\* Goroutine p is inside a ClientSignIn that found a session at its slot.
Conflicting(p) ==
    procs[p].op = "ClientSignIn" /\ procs[p].pc # "idle" /\ procs[p].existing # NilClient

\* The positions of a conflicting ClientSignIn between the removal of the
\* evicted session's slot (75) and the binding of the new session (81).
AfterEviction == {"si77", "eq121", "eq124", "eq125", "eq135", "eq139", "eq144", "si81"}

\* The positions after the binding of the new session.
AfterBinding == {"si86", "si88", "si90", "si91", "si92", "si93"}

\* C17: in a conflicting ClientSignIn the existing session A gets a newly
\* drawn temporary identity (71), then the kick-out notification (73), then the
\* termination request (74), then loses its slot (75); the 'new device signed
\* in' notification goes out after that to clients other than A and the new
\* session B, which is bound to the slot (81) only after all of these.
C17_EvictionOrder ==
    \A p \in Procs :
        Conflicting(p) =>
            LET A == procs[p].existing
                B == procs[p].client
                slot == <<procs[p].uid_, procs[p].device>>
                pc == procs[p].pc
                kicked == Queued(A, NewMessage(0, ActionNotifyKickOut))
                holdsA == slot \in Slots /\ HeldAt(slot) = A
                unbound == SlotsOf(B) = {<<procs[p].id, 0>>} /\ Identity(B) = <<procs[p].id, 0>>
            IN  /\ A # B
                /\ pc \in {"si71", "si71set"} =>
                     Identity(A) = slot /\ kicked = 0 /\ ~sess[A].exit /\ holdsA /\ unbound
                /\ pc = "si73" => IsTempId(sess[A].uid) /\ kicked = 0 /\ ~sess[A].exit /\ holdsA /\ unbound
                /\ pc = "si74" => IsTempId(sess[A].uid) /\ kicked = 1 /\ ~sess[A].exit /\ holdsA /\ unbound
                /\ pc = "si75" => IsTempId(sess[A].uid) /\ kicked = 1 /\ sess[A].exit /\ holdsA /\ unbound
                /\ pc \in AfterEviction =>
                     /\ IsTempId(sess[A].uid) /\ kicked = 1 /\ sess[A].exit
                     /\ SlotsOf(A) = {}
                     /\ slot \notin Slots
                     /\ unbound
                /\ pc \in {"eq139", "eq144"} => procs[p].d \notin {A, B}
                /\ pc \in AfterBinding =>
                     /\ SlotsOf(A) = {}
                     /\ slot \in Slots /\ HeldAt(slot) = B

\* C17's case: a conflicting sign-in has evicted A, notified another device
\* of the user and bound B to the slot.
C17_Witness ==
    \E p \in Procs :
        /\ Conflicting(p)
        /\ procs[p].pc = "si86"
        /\ HeldAt(<<procs[p].uid_, procs[p].device>>) = procs[p].client
        /\ \E c \in Clients \ {procs[p].existing, procs[p].client} :
             /\ RegisteredUnder(c, procs[p].uid_)
             /\ Queued(c, NewMessage(0, ActionNotifyAccountLogin)) >= 1
        /\ Queued(procs[p].client, NewMessage(0, ActionNotifyAccountLogin)) = 0
        /\ Queued(procs[p].existing, NewMessage(0, ActionNotifyAccountLogin)) = 0

\* C18: under concurrent ClientSignIn and ClientLogout calls maxOnline never
\* decreases from one state to the next, and once all calls have returned it
\* is at least clientOnline.
C18_HighWatermark ==
    /\ [][maxOnline' >= maxOnline]_vars
    /\ [](AllIdle => maxOnline >= clientOnline)

\* C20: once all calls have returned, every Session is held by at most one
\* slot of the Registry and clientOnline was incremented at most once per
\* Session signed in, also when two ClientSignIn calls use the same tempId.
C20_OneSlotPerSession ==
    AllIdle =>
        /\ \A c \in Clients : Cardinality(SlotsOf(c)) <= 1
        /\ hist.signIns <= Cardinality(hist.used)

====
